---- MODULE Spec2Model ----
(***************************************************************************)
(* IndexedDBUtil.ts: a promise facade (openDB, deleteDB, addObjectStore,   *)
(* set, getSpecific, getAll, update, remove, clear) over the browser's     *)
(* IndexedDB engine.  One database name is modelled.  The engine side      *)
(* (connection queue, version upgrade, transactions, requests) follows     *)
(* the calls the source makes on it; every handler of the source is one    *)
(* action, together with the promise continuation (await) it triggers,     *)
(* because continuations run as microtasks before the next engine event.   *)
(***************************************************************************)
EXTENDS Integers, Sequences, FiniteSets, TLC

\* ---------------------------------------------------------------- bounds
MaxCalls == 2          \* facade calls issued in one run

Procs == {1, 2}        \* slots of calls in flight at the same time
StoreNames == {"s1", "s2"}
Keys == {1, 2}         \* IDBValidKey values, ordered as the engine orders keys
Items == {1, 2}        \* opaque stored payloads
NoItem == 0            \* "undefined": no record at a key

CrudKinds == {"set", "getSpecific", "getAll", "update", "remove", "clear"}
Kinds == CrudKinds \cup {"addObjectStore", "deleteDB", "openDB"}
\* newVersion of a direct openDB call: left out (0) or 2
NewVersions == {0, 2}

VARIABLES
    supported,   \* 'indexedDB' in window
    version,     \* stored version of the database; 0: it does not exist
    stores,      \* db.objectStoreNames
    data,        \* contents of the object stores
    openQueue,   \* the engine's queue of pending open / delete requests
    txnQueue,    \* live transactions in creation order
    orphaned,    \* a connection left open by a call that is over
    op,          \* per slot: the call in flight, its position and its future
    calls,       \* calls issued so far
    \* history variables, read by the properties only
    written,     \* per key: the item of a resolved set not yet overtaken
    cleared,     \* per store: a clear resolved and no write followed
    verFloor,    \* least version a resolved addObjectStore promises
    snap,        \* the database as it was at the last call, made alone
    last         \* the last call, when made with no other call pending

core == <<supported, version, stores, data, openQueue, txnQueue,
          orphaned, op, calls>>
hist == <<written, cleared, verFloor, snap, last>>
vars == <<core, hist>>

\* ---------------------------------------------------------------- values
\* What a future or a request settles with: a tag and a payload.
Val(tag, payload) == [tag |-> tag, val |-> payload]
NoValue == Val("none", <<>>)
Undefined == Val("undefined", <<>>)
KeyVal(k) == Val("key", <<k>>)
ItemVal(i) == IF i = NoItem THEN Undefined ELSE Val("item", <<i>>)
AllVal(seq) == Val("all", seq)
ErrVal(name) == Val(name, <<>>)
DbVal(v) == Val("db", <<v>>)       \* a connection, at version v

ErrorTags == {"Error", "ReferenceError", "VersionError", "NotFoundError",
              "AbortError", "UnknownError"}

EmptyStore == [k \in Keys |-> NoItem]
EmptyData == [s \in StoreNames |-> EmptyStore]

\* the call that a call directly follows, both made with no other call
\* pending (a caller that awaits each future), and how it ended
NoAfter == [kind |-> "none", store |-> "s1", key |-> 1, item |-> 1, ok |-> FALSE]

\* the connection getCurrentDBVersion opens: how often it was opened and
\* closed
NoProbe == [opens |-> 0, closes |-> 0]

Idle == [kind |-> "none", store |-> "s1", key |-> 1, item |-> 1,
         pc |-> "idle", future |-> "none", value |-> NoValue,
         conn |-> "none", closes |-> 0, reqVersion |-> 0, connVersion |-> 0,
         aborting |-> FALSE, engineErr |-> NoValue,
         existing |-> NoValue, expect |-> 0, vBefore |-> 0, sameLife |-> FALSE,
         after |-> NoAfter, probe |-> NoProbe, currentVersion |-> 0]

NoSnap == [proc |-> 0, version |-> 0, stores |-> {}, data |-> EmptyData]
NoLast == [kind |-> "none", store |-> "s1", key |-> 1, item |-> 1, proc |-> 0]

\* ------------------------------------------------------ engine primitives
\* The requests the callbacks place on an object store (IDBObjectStore).
Put(st, item, key) == [result |-> KeyVal(key), store |-> [st EXCEPT ![key] = item]]
Get(st, key) == [result |-> ItemVal(st[key]), store |-> st]
Delete(st, key) == [result |-> Undefined, store |-> [st EXCEPT ![key] = NoItem]]
Clear(st) == [result |-> Undefined, store |-> EmptyStore]

RECURSIVE ItemsFrom(_, _)
\* the records of st at the keys >= k, in ascending key order
ItemsFrom(st, k) ==
    IF k \notin Keys THEN <<>>
    ELSE (IF st[k] = NoItem THEN <<>> ELSE <<st[k]>>) \o ItemsFrom(st, k + 1)
GetAll(st) == [result |-> AllVal(ItemsFrom(st, 1)), store |-> st]

\* db.createObjectStore: the engine throws when the name is taken.
CreateObjectStore(names, storeName) ==
    IF storeName \in names THEN [ok |-> FALSE, names |-> names]
    ELSE [ok |-> TRUE, names |-> names \cup {storeName}]

\* indexedDB.open(name) with no version opens at the stored version, and
\* creates the database at version 1 when it does not exist.
EffectiveVersion(stored, requested) ==
    IF requested # 0 THEN requested ELSE IF stored = 0 THEN 1 ELSE stored

\* ------------------------------------------------------------ source code
\* openDB line 13: indexedDB.open(dbName, newVersion ?? 1); 0 is "undefined"
OpenDBVersion(newVersion) == IF newVersion = 0 THEN 1 ELSE newVersion

\* onupgradeneeded without the test for an existing store
OnUpgradeNeededUnchecked(names, storeName) == CreateObjectStore(names, storeName)

\* onupgradeneeded with the test inverted: an existing store is dropped
OnUpgradeNeededInverted(names, storeName) ==
    IF storeName \in names THEN [ok |-> TRUE, names |-> names \ {storeName}]
    ELSE [ok |-> TRUE, names |-> names]

\* openDB lines 24-31: openRequest.onupgradeneeded
OnUpgradeNeeded(names, storeName) ==
    IF storeName \notin names THEN CreateObjectStore(names, storeName)
    ELSE [ok |-> TRUE, names |-> names]

\* addObjectStore reopening at the version it read
NewVersionSame(currentVersion) == currentVersion

\* addObjectStore line 78
NewVersion(currentVersion) == currentVersion + 1

\* the callbacks handed to transactionPromise, and update's two requests
\* set with the arguments of store.put in the wrong order
SetCallbackSwapped(st, item, key) == Put(st, key, item)
SetCallback(st, item, key) == Put(st, item, key)
GetSpecificCallback(st, key) == Get(st, key)
GetAllCallback(st) == GetAll(st)
\* remove placing a request that empties the store
RemoveCallbackAll(st, key) == Clear(st)
RemoveCallback(st, key) == Delete(st, key)
\* clear placing a request that deletes nothing
ClearCallbackNothing(st) == [result |-> Undefined, store |-> st]
ClearCallback(st) == Clear(st)
\* the seed written with the arguments of store.put in the wrong order
AddObjectStoreCallbackSwapped(st, item, key) == Put(st, key, item)
AddObjectStoreCallback(st, item, key) == Put(st, item, key)
UpdateRead(st, key) == Get(st, key)
UpdateWrite(st, item, key) == Put(st, item, key)

\* the access mode each operation passes to db.transaction
Mode(kind) == IF kind \in {"getSpecific", "getAll"} THEN "readonly" ELSE "readwrite"

\* the request an operation has pending, applied to its store's contents
Execute(o, st) ==
    CASE o.pc = "reading" -> UpdateRead(st, o.key)
      [] o.pc = "writing" -> UpdateWrite(st, o.item, o.key)
      [] o.kind = "set" -> SetCallback(st, o.item, o.key)
      [] o.kind = "getSpecific" -> GetSpecificCallback(st, o.key)
      [] o.kind = "getAll" -> GetAllCallback(st)
      [] o.kind = "remove" -> RemoveCallback(st, o.key)
      [] o.kind = "clear" -> ClearCallback(st)
      [] OTHER -> AddObjectStoreCallback(st, o.item, o.key)

\* Promise semantics: resolve / reject act on a pending future only.
Resolve(o, v) ==
    IF o.future = "pending" THEN [o EXCEPT !.future = "resolved", !.value = v] ELSE o
Reject(o, e) ==
    IF o.future = "pending" THEN [o EXCEPT !.future = "rejected", !.value = e] ELSE o

\* ------------------------------------------------------------------ Init
\* Databases an earlier session of the program can have left behind:
\* none; the one set(db, "s1", 1, 1) makes; that one after
\* set(db, "s1", 2, 2) and addObjectStore(db, "s2", 2, 1).
InitDBs ==
    { [version |-> 0, stores |-> {}, data |-> EmptyData],
      [version |-> 1, stores |-> {"s1"},
       data |-> [EmptyData EXCEPT !["s1"][1] = 1]],
      [version |-> 2, stores |-> {"s1", "s2"},
       data |-> [EmptyData EXCEPT !["s1"][1] = 1, !["s1"][2] = 2,
                                  !["s2"][1] = 2]] }

Init ==
    /\ supported \in BOOLEAN
    /\ \E d \in InitDBs :
          version = d.version /\ stores = d.stores /\ data = d.data
    /\ openQueue = <<>>
    /\ txnQueue = <<>>
    /\ orphaned = FALSE
    /\ op = [p \in Procs |-> Idle]
    /\ calls = 0
    /\ written = EmptyData
    /\ cleared = [s \in StoreNames |-> FALSE]
    /\ verFloor = 0
    /\ snap = NoSnap
    /\ last = NoLast

\* ----------------------------------------------------------------- calls
\* openDB without its test of the capability
OpenDBUntested(o, newVersion) ==
    [o EXCEPT !.pc = "opening", !.reqVersion = OpenDBVersion(newVersion)]

\* openDB lines 2-33, up to the open request being placed
OpenDB(o, newVersion) ==
    IF ~supported THEN [Reject(o, ErrVal("Error")) EXCEPT !.pc = "done"]
    ELSE [o EXCEPT !.pc = "opening", !.reqVersion = OpenDBVersion(newVersion)]

\* getCurrentDBVersion lines 52-54: no capability test; indexedDB.open
\* throws inside the executor when indexedDB is not defined
GetCurrentDBVersion(o) ==
    IF ~supported THEN [Reject(o, ErrVal("ReferenceError")) EXCEPT !.pc = "done"]
    ELSE [o EXCEPT !.pc = "inspect", !.reqVersion = 0]

\* getCurrentDBVersion whose onsuccess does not close the connection
OnInspectSuccessNoClose(o, v) ==
    [o EXCEPT !.probe = [opens |-> 1, closes |-> 0], !.currentVersion = v]

\* getCurrentDBVersion lines 56-61: openRequest.onsuccess reads the
\* version of the connection, closes it and resolves with the version
OnInspectSuccess(o, v) ==
    [o EXCEPT !.probe = [opens |-> @.opens + 1, closes |-> @.closes + 1],
              !.currentVersion = v]

\* deleteDB lines 39-41
DeleteDB(o) ==
    IF ~supported THEN [Reject(o, ErrVal("ReferenceError")) EXCEPT !.pc = "done"]
    ELSE [o EXCEPT !.pc = "deleting"]

\* the synchronous part of each exported operation
Issue(o) ==
    CASE o.kind \in CrudKinds -> OpenDB(o, 0)
      [] o.kind = "openDB" -> OpenDB(o, o.reqVersion)
      [] o.kind = "addObjectStore" -> GetCurrentDBVersion(o)
      [] OTHER -> DeleteDB(o)

\* A slot holds a call until the caller moves on: the records of the calls
\* that are over are dropped at the next call, and a connection such a call
\* left open stays open for good.  The caller of openDB holds the slot as
\* long as it holds the connection open.
FreeSlot(p) ==
    /\ op[p].pc \in {"idle", "done"}
    /\ ~(op[p].kind = "openDB" /\ op[p].conn = "open")

CanCall(p) ==
    /\ calls < MaxCalls
    /\ FreeSlot(p)
    /\ \A q \in Procs : q < p => ~FreeSlot(q)

\* No call is pending: every future handed out so far is settled.
Quiet == \A q \in Procs : op[q].future # "pending"

\* The pairs of consecutive calls, each made when Quiet, that are recorded:
\* set then getSpecific at its key, clear then getAll of its store,
\* addObjectStore twice with one store name.
Follows(kind, s, k) ==
    /\ Quiet
    /\ last.proc # 0
    /\ last.store = s
    /\ \/ last.kind = "set" /\ kind = "getSpecific" /\ last.key = k
       \/ last.kind = "clear" /\ kind = "getAll"
       \/ last.kind = "addObjectStore" /\ kind = "addObjectStore"

\* the call o has a connection that is open
HoldsOpen(o) == o.conn = "open" \/ o.probe.opens > o.probe.closes

Call(p, kind, s, k, i, nv) ==
    /\ CanCall(p)
    /\ kind \in {"getAll", "clear", "deleteDB", "openDB"} => k = 1
    /\ kind \notin {"set", "update", "addObjectStore"} => i = 1
    /\ kind = "deleteDB" => s = "s1"
    /\ kind # "openDB" => nv = 0
    /\ LET isAdd == kind = "addObjectStore"
           o == Issue([Idle EXCEPT
                  !.kind = kind, !.store = s, !.key = k, !.item = i,
                  !.future = "pending", !.reqVersion = nv,
                  !.vBefore = IF isAdd THEN EffectiveVersion(version, 0) ELSE 0,
                  !.sameLife = isAdd,
                  !.after = IF Follows(kind, s, k)
                            THEN [kind |-> last.kind, store |-> last.store,
                                  key |-> last.key, item |-> last.item,
                                  ok |-> op[last.proc].future = "resolved"]
                            ELSE NoAfter])
       IN /\ op' = [q \in Procs |->
                      IF q = p THEN o ELSE IF FreeSlot(q) THEN Idle ELSE op[q]]
          /\ openQueue' = IF o.pc = "done" THEN openQueue ELSE Append(openQueue, p)
          /\ snap' = IF Quiet /\ isAdd
                     THEN [proc |-> p, version |-> version, stores |-> stores,
                           data |-> data]
                     ELSE NoSnap
    /\ orphaned' = (orphaned \/ \E q \in Procs : FreeSlot(q) /\ HoldsOpen(op[q]))
    /\ calls' = calls + 1
    /\ last' = IF Quiet /\ kind \in {"set", "clear", "addObjectStore"}
               THEN [kind |-> kind, store |-> s, key |-> k, item |-> i, proc |-> p]
               ELSE NoLast
    /\ UNCHANGED <<supported, version, stores, data, txnQueue,
                   written, cleared, verFloor>>

\* ---------------------------------------------------------- open requests
\* A version change (upgrade, delete) waits until every connection to the
\* database is closed: no connection here has an onversionchange handler.
Blocked == orphaned \/ \E q \in Procs : HoldsOpen(op[q])

AtHead(p) == openQueue # <<>> /\ Head(openQueue) = p

\* a transaction started whether the store exists or not
BeginTransactionAnyStore(o, names) ==
    [o EXCEPT !.pc = IF o.kind = "update" THEN "reading" ELSE "request"]

\* transactionPromise lines 95-97 and update lines 181-183: db.transaction
\* throws NotFoundError inside the executor when the store is missing
BeginTransaction(o, names) ==
    IF o.store \notin names
    THEN [Reject(o, ErrVal("NotFoundError")) EXCEPT !.pc = "done"]
    ELSE [o EXCEPT !.pc = IF o.kind = "update" THEN "reading" ELSE "request"]

\* openDB lines 16-18: openRequest.onsuccess resolves with the connection;
\* then the continuation of the operation that awaits openDB, if any
OnOpenSuccess(o, v, names) ==
    LET c == [o EXCEPT !.conn = "open", !.connVersion = v]
    IN IF o.kind = "openDB" THEN [Resolve(c, DbVal(v)) EXCEPT !.pc = "done"]
       ELSE BeginTransaction(c, names)

\* the creation of the store run on every successful open
OnOpenUpgradeAlways(o, upgrade, names) ==
    IF o.pc = "opening" THEN OnUpgradeNeeded(names, o.store)
    ELSE [ok |-> TRUE, names |-> names]

\* openDB lines 24-31: the creation of the store is the onupgradeneeded
\* handler, which the engine calls only when it upgrades;
\* getCurrentDBVersion (lines 52-67) sets no such handler
OnOpenUpgrade(o, upgrade, names) ==
    IF upgrade /\ o.pc = "opening" THEN OnUpgradeNeeded(names, o.store)
    ELSE [ok |-> TRUE, names |-> names]

\* The engine serves the open request at the head of its queue: upgrade
\* (onupgradeneeded) when the stored version is lower, then onsuccess and
\* the continuation of the awaiting operation.
OpenSucceed(p) ==
    /\ AtHead(p)
    /\ op[p].pc \in {"inspect", "opening"}
    /\ LET o == op[p]
           target == EffectiveVersion(version, o.reqVersion)
           upgrade == version < target
           up == OnOpenUpgrade(o, upgrade, stores)
       IN /\ version <= target
          /\ upgrade => ~Blocked
          /\ IF ~up.ok
             THEN \* the handler threw: the upgrade is rolled back
                  /\ op' = [op EXCEPT ![p] =
                              [Reject(o, ErrVal("AbortError")) EXCEPT
                                 !.pc = "done", !.engineErr = ErrVal("AbortError")]]
                  /\ openQueue' = Tail(openQueue)
                  /\ UNCHANGED <<version, stores, txnQueue>>
             ELSE /\ version' = target
                  /\ stores' = up.names
                  /\ IF o.pc = "inspect"
                     THEN \* getCurrentDBVersion lines 56-61, then
                          \* addObjectStore lines 77-80
                          /\ op' = [op EXCEPT ![p] =
                                      LET o1 == OnInspectSuccess(o, target)
                                      IN OpenDB(o1, NewVersion(o1.currentVersion))]
                          /\ openQueue' = Append(Tail(openQueue), p)
                          /\ UNCHANGED txnQueue
                     ELSE \* openDB lines 16-18, then the awaiting operation
                          LET o2 == OnOpenSuccess(o, target, up.names)
                          IN /\ op' = [op EXCEPT ![p] = o2]
                             /\ openQueue' = Tail(openQueue)
                             /\ txnQueue' = IF o2.pc = "done" THEN txnQueue
                                            ELSE Append(txnQueue, p)
    /\ UNCHANGED <<supported, data, orphaned, calls, hist>>

\* onerror of an open request (lines 20-22, 63-65) with the error e
OpenError(p, e) ==
    /\ op' = [op EXCEPT ![p] =
                [Reject(op[p], e) EXCEPT !.pc = "done", !.engineErr = e]]
    /\ openQueue' = Tail(openQueue)

\* The stored version is higher than the requested one.
OpenVersionError(p) ==
    /\ AtHead(p)
    /\ op[p].pc \in {"inspect", "opening"}
    /\ version > EffectiveVersion(version, op[p].reqVersion)
    /\ OpenError(p, ErrVal("VersionError"))
    /\ UNCHANGED <<supported, version, stores, data, txnQueue, orphaned, calls, hist>>

\* The engine fails the open request for a reason of its own; it may do so
\* with any request (OpenFault, DeleteFault, RequestFault).
OpenFault(p) ==
    /\ AtHead(p)
    /\ op[p].pc \in {"inspect", "opening"}
    /\ OpenError(p, ErrVal("UnknownError"))
    /\ UNCHANGED <<supported, version, stores, data, txnQueue, orphaned,
                   calls, hist>>

\* ---------------------------------------------------------------- deleteDB
\* deleteRequest.onsuccess that does not resolve
OnDeleteSuccessSilent(o) == [o EXCEPT !.pc = "done"]

\* deleteDB lines 42-44: deleteRequest.onsuccess resolves with the result
OnDeleteSuccess(o) == [Resolve(o, Undefined) EXCEPT !.pc = "done"]

\* the engine deletes the database and reports success
DeleteSucceed(p) ==
    /\ AtHead(p)
    /\ op[p].pc = "deleting"
    /\ ~Blocked
    /\ version' = 0
    /\ stores' = {}
    /\ data' = EmptyData
    /\ op' = [q \in Procs |->
                IF q = p THEN OnDeleteSuccess(op[p])
                ELSE [op[q] EXCEPT !.sameLife = FALSE]]
    /\ openQueue' = Tail(openQueue)
    /\ written' = EmptyData
    /\ verFloor' = 0
    /\ UNCHANGED <<supported, txnQueue, orphaned, calls,
                   cleared, snap, last>>

\* deleteDB lines 45-47: deleteRequest.onerror
DeleteFault(p) ==
    /\ AtHead(p)
    /\ op[p].pc = "deleting"
    /\ OpenError(p, ErrVal("UnknownError"))
    /\ UNCHANGED <<supported, version, stores, data, txnQueue, orphaned,
                   calls, hist>>

\* ------------------------------------------------------------ transactions
Pos(p) == CHOOSE i \in 1..Len(txnQueue) : txnQueue[i] = p
Without(q, p) == SelectSeq(q, LAMBDA x : x # p)

\* Two transactions on one store conflict unless both are read-only; the
\* engine runs a transaction after the conflicting ones created before it.
Conflict(a, b) ==
    a.store = b.store /\ (Mode(a.kind) = "readwrite" \/ Mode(b.kind) = "readwrite")

CanRun(p) ==
    \A i \in 1..Len(txnQueue) :
        i < Pos(p) => ~Conflict(op[txnQueue[i]], op[p])

Max(a, b) == IF a >= b THEN a ELSE b

\* update writing only when its read found a record
OnSuccessIfFound(o, result) ==
    IF o.pc = "reading"
    THEN IF result = Undefined THEN [o EXCEPT !.pc = "txn", !.existing = result]
         ELSE [o EXCEPT !.pc = "writing", !.existing = result]
    ELSE [Resolve(o, result) EXCEPT !.pc = "txn"]

\* request.onsuccess (lines 99-101), objStoreRequest.onsuccess (185-193)
\* and putRequest.onsuccess (187-189)
OnSuccess(o, result) ==
    IF o.pc = "reading"
    THEN [o EXCEPT !.pc = "writing", !.existing = result]
    ELSE [Resolve(o, result) EXCEPT !.pc = "txn"]

\* update issuing its write also when the read failed
OnErrorWrites(o, e) ==
    IF o.pc = "reading" THEN [o EXCEPT !.pc = "writing", !.engineErr = e]
    ELSE [Reject(o, e) EXCEPT !.pc = "txn", !.aborting = TRUE, !.engineErr = e]

\* no request with an onerror handler
OnErrorUnhandled(o, e) == [o EXCEPT !.pc = "txn", !.aborting = TRUE, !.engineErr = e]

\* request.onerror (lines 102-104) and putRequest.onerror (190-192);
\* objStoreRequest has no onerror.  The unhandled error aborts the
\* transaction.
OnError(o, e) ==
    IF o.pc = "reading"
    THEN [o EXCEPT !.pc = "txn", !.aborting = TRUE, !.engineErr = e]
    ELSE [Reject(o, e) EXCEPT !.pc = "txn", !.aborting = TRUE, !.engineErr = e]

RequestSucceed(p) ==
    /\ op[p].pc \in {"request", "reading", "writing"}
    /\ CanRun(p)
    /\ LET o == op[p]
           s == o.store
           k == o.key
           r == Execute(o, data[s])
           final == o.pc # "reading"
           puts == final /\ o.kind \in {"set", "update", "addObjectStore"}
           seen == CASE o.kind = "getSpecific" -> written[s][k]
                     [] o.kind = "getAll" -> IF cleared[s] THEN 1 ELSE 0
                     [] OTHER -> 0
       IN /\ data' = [data EXCEPT ![s] = r.store]
          /\ op' = [op EXCEPT ![p] = OnSuccess([o EXCEPT !.expect = seen], r.result)]
          /\ written' =
                CASE ~final -> written
                  [] o.kind = "set" -> [written EXCEPT ![s][k] = o.item]
                  [] o.kind \in {"update", "addObjectStore", "remove"} ->
                        [written EXCEPT ![s][k] = NoItem]
                  [] o.kind = "clear" -> [written EXCEPT ![s] = EmptyStore]
                  [] OTHER -> written
          /\ cleared' =
                CASE puts -> [cleared EXCEPT ![s] = FALSE]
                  [] o.kind = "clear" -> [cleared EXCEPT ![s] = TRUE]
                  [] OTHER -> cleared
          /\ verFloor' =
                IF o.kind = "addObjectStore" /\ o.sameLife
                THEN Max(verFloor, o.vBefore + 1) ELSE verFloor
    /\ UNCHANGED <<supported, version, stores, openQueue, txnQueue,
                   orphaned, calls, snap, last>>

RequestFault(p) ==
    /\ op[p].pc \in {"request", "reading", "writing"}
    /\ CanRun(p)
    /\ op' = [op EXCEPT ![p] = OnError(op[p], ErrVal("UnknownError"))]
    /\ UNCHANGED <<supported, version, stores, data, openQueue, txnQueue,
                   orphaned, calls, hist>>

\* transaction.oncomplete (lines 106-108, 195-197): db.close().  A
\* transaction all of whose requests succeeded commits; one with a failed
\* request aborts, since no handler of the source prevents the default.
\* oncomplete that does not close the connection
OnCompleteNoClose(o) == [o EXCEPT !.pc = "done"]

OnComplete(o) ==
    [o EXCEPT !.conn = "closed", !.closes = o.closes + 1, !.pc = "done"]

TxnComplete(p) ==
    /\ op[p].pc = "txn"
    /\ ~op[p].aborting
    /\ op' = [op EXCEPT ![p] = OnComplete(op[p])]
    /\ txnQueue' = Without(txnQueue, p)
    /\ UNCHANGED <<supported, version, stores, data, openQueue,
                   orphaned, calls, hist>>

\* The transaction aborts: no handler of the source listens to abort.
TxnAbort(p) ==
    /\ op[p].pc = "txn"
    /\ op[p].aborting
    /\ op' = [op EXCEPT ![p].pc = "done"]
    /\ txnQueue' = Without(txnQueue, p)
    /\ UNCHANGED <<supported, version, stores, data, openQueue,
                   orphaned, calls, hist>>

\* the caller issues some operation with some arguments
CallAny ==
    \E p \in {q \in Procs : CanCall(q)} :
        \E kind \in Kinds, s \in StoreNames, k \in Keys, i \in Items,
           nv \in NewVersions :
            Call(p, kind, s, k, i, nv)

\* The caller of openDB closes the connection it was handed.
CallerClose(p) ==
    /\ op[p].kind = "openDB"
    /\ op[p].conn = "open"
    /\ op' = [op EXCEPT ![p].conn = "closed"]
    /\ UNCHANGED <<supported, version, stores, data, openQueue, txnQueue,
                   orphaned, calls, hist>>

\* ------------------------------------------------------------------ Next
Next ==
    \/ CallAny
    \/ \E p \in Procs : OpenSucceed(p)
    \/ \E p \in Procs : OpenVersionError(p)
    \/ \E p \in Procs : OpenFault(p)
    \/ \E p \in Procs : DeleteSucceed(p)
    \/ \E p \in Procs : DeleteFault(p)
    \/ \E p \in Procs : RequestSucceed(p)
    \/ \E p \in Procs : RequestFault(p)
    \/ \E p \in Procs : TxnComplete(p)
    \/ \E p \in Procs : TxnAbort(p)
    \/ \E p \in Procs : CallerClose(p)

Spec == Init /\ [][Next]_vars

\* A fair engine: it serves the open or delete request at the head of its
\* queue once nothing blocks it, settles every request of a transaction that
\* can run, and completes or aborts every transaction whose requests have
\* settled; and the caller of openDB closes the connection it was handed.
\* Nothing obliges the engine to fail a request or the caller to make
\* another call.
Fairness ==
    \A p \in Procs :
        /\ WF_vars(OpenSucceed(p) \/ OpenVersionError(p))
        /\ WF_vars(CallerClose(p))
        /\ WF_vars(DeleteSucceed(p))
        /\ WF_vars(RequestSucceed(p))
        /\ WF_vars(TxnComplete(p) \/ TxnAbort(p))

FairSpec == Spec /\ Fairness

\* ================================================================ claims
Settled(o) == o.future \in {"resolved", "rejected"}
Over(o) == o.pc = "done"

\* C1: every CRUD operation that obtained a connection has closed it exactly
\* once when the operation is over (its transaction completed or aborted,
\* or could not be started).
C1_ClosedExactlyOnce ==
    \A p \in Procs :
        (op[p].kind \in CrudKinds /\ op[p].conn # "none" /\ Over(op[p]))
            => op[p].closes = 1

\* C2: the open step of a CRUD operation never fails with a version error,
\* and the connection it yields is at the stored version.
C2_OpensAtStoredVersion ==
    \A p \in Procs :
        op[p].kind \in CrudKinds =>
            /\ op[p].value # ErrVal("VersionError")
            /\ op[p].conn = "open" => op[p].connVersion = version

\* C3: round trip.  A getSpecific that resolves at a key whose last
\* resolved set has not been overtaken by another operation on that key
\* resolves with the item of that set; and when it directly follows that
\* set (a caller that awaits each future) it resolves with the item and is rejected only when
\* the engine fails one of its requests.
C3_RoundTrip ==
    \A p \in Procs :
        LET o == op[p] IN
        o.kind = "getSpecific" =>
            /\ (o.future = "resolved" /\ o.expect # NoItem)
                  => o.value = ItemVal(o.expect)
            /\ (o.after.kind = "set" /\ o.after.ok /\ o.after.store = o.store
                  /\ o.after.key = o.key) =>
                  /\ o.future = "resolved" => o.value = ItemVal(o.after.item)
                  /\ o.future = "rejected" => o.value = ErrVal("UnknownError")

C3_Witness ==
    \E p \in Procs :
        /\ op[p].kind = "getSpecific" /\ op[p].future = "resolved"
        /\ op[p].expect = 2
        /\ op[p].after = [kind |-> "set", store |-> op[p].store, key |-> op[p].key,
                          item |-> 2, ok |-> TRUE]

\* C4: an operation one of whose engine requests settled with an error has
\* its future rejected with that error.
C4_FailurePropagated ==
    \A p \in Procs :
        op[p].engineErr # NoValue =>
            op[p].future = "rejected" /\ op[p].value = op[p].engineErr

\* What a version inspection of the database reports in the current state.
Inspected == EffectiveVersion(version, 0)

\* C5 as stated: once an addObjectStore has resolved, a version inspection
\* reports more than the version observed before the call.
C5_Original ==
    \A p \in Procs :
        (op[p].kind = "addObjectStore" /\ op[p].future = "resolved")
            => Inspected > op[p].vBefore

\* C5 amended: the same, as long as no deleteDB has succeeded since the
\* version was observed; this holds in every later state, also after the
\* record of the call is gone (verFloor).
C5_VersionMonotonic ==
    /\ Inspected >= verFloor
    /\ \A p \in Procs :
          (op[p].kind = "addObjectStore" /\ op[p].future = "resolved"
             /\ op[p].sameLife) => Inspected > op[p].vBefore

C5_Witness ==
    \E p \in Procs :
        /\ op[p].kind = "addObjectStore" /\ op[p].future = "resolved"
        /\ op[p].sameLife /\ op[p].vBefore = 2 /\ verFloor = 3

\* The effects of a resolved addObjectStore made alone, other than
\* the version: the store exists and holds the seed, no other store appeared
\* or went, no other record changed.
AddEffects(p) ==
    LET o == op[p] IN
    /\ stores = snap.stores \cup {o.store}
    /\ data[o.store][o.key] = o.item
    /\ \A t \in StoreNames, k \in Keys :
          (t # o.store \/ k # o.key) => data[t][k] = snap.data[t][k]

AddResolvedAlone(p) ==
    op[p].kind = "addObjectStore" /\ op[p].future = "resolved" /\ snap.proc = p

\* C6 as stated: the version is the stored version before the call plus one
\* (a database that does not exist has the stored version 0).
C6_Original ==
    \A p \in Procs :
        AddResolvedAlone(p) => version = snap.version + 1 /\ AddEffects(p)

\* C6 amended: the version is one more than what a version inspection before
\* the call reports, which is 1 and not 0 for a database that does not exist.
C6_AddObjectStore ==
    \A p \in Procs :
        AddResolvedAlone(p) =>
            version = EffectiveVersion(snap.version, 0) + 1 /\ AddEffects(p)

C6_Witness ==
    \E p \in Procs :
        /\ AddResolvedAlone(p)
        /\ snap.version = 1 /\ op[p].store \notin snap.stores
        /\ snap.data["s1"][1] = 1

\* C7: an addObjectStore that directly follows an addObjectStore of the same
\* store name is rejected only by an engine fault or the missing capability,
\* never by the store being there already; when either call resolved the
\* store exists.  This is as long as the caller has made no further call
\* (one made meanwhile may change the schema, one made later may be a
\* deleteDB).
C7_IdempotentCreation ==
    \A p \in Procs :
        LET o == op[p] IN
        (o.kind = "addObjectStore" /\ o.after.kind = "addObjectStore"
           /\ o.after.store = o.store /\ last.proc = p) =>
            /\ o.future = "rejected" =>
                  o.value \in {ErrVal("UnknownError"), ErrVal("ReferenceError")}
            /\ (o.after.ok \/ o.future = "resolved") => o.store \in stores

C7_Witness ==
    \E p \in Procs :
        /\ op[p].kind = "addObjectStore" /\ op[p].future = "resolved"
        /\ op[p].after.kind = "addObjectStore" /\ op[p].after.store = op[p].store
        /\ op[p].after.ok

\* C8: in every step other than a successful deleteDB the stored version
\* does not decrease and no store disappears.
C8_Monotonic ==
    [][(\E p \in Procs : DeleteSucceed(p))
         \/ (version' >= version /\ stores \subseteq stores')]_vars

C8_Witness ==
    \E p \in Procs :
        /\ op[p].kind = "addObjectStore" /\ op[p].conn = "open"
        /\ version = 3 /\ stores = {"s1", "s2"}

\* C9: an update whose transaction completed has resolved; it resolves with
\* what set resolves with; and the step in which its write succeeds leaves
\* the contents set leaves from the same state, whether its read found a
\* record or not.
C9_UpdateState ==
    \A p \in Procs :
        LET o == op[p] IN
        o.kind = "update" =>
            /\ (Over(o) /\ o.closes = 1) => o.future = "resolved"
            /\ o.future = "resolved" =>
                  o.value = SetCallback(EmptyStore, o.item, o.key).result
            /\ (o.future = "resolved" /\ o.pc = "txn") =>
                  data[o.store][o.key] = o.item

C9_UpdateStep ==
    \A p \in Procs :
        (op[p].kind = "update" /\ op[p].pc = "writing" /\ op'[p].pc = "txn"
           /\ op'[p].future = "resolved") =>
            /\ op[p].existing = ItemVal(data[op[p].store][op[p].key])
            /\ data' = [data EXCEPT ![op[p].store] =
                          SetCallback(data[op[p].store], op[p].item, op[p].key).store]

\* C9: upsert semantics of update, in every state and in every step
C9_Upsert == [](C9_UpdateState) /\ [][C9_UpdateStep]_vars

C9_Witness ==
    \E p \in Procs :
        /\ op[p].kind = "update" /\ op[p].future = "resolved"
        /\ op[p].existing = Undefined /\ Over(op[p]) /\ op[p].closes = 1

\* a step of the engine on behalf of the call in slot p
StepOf(p) ==
    \/ OpenSucceed(p) \/ OpenVersionError(p) \/ OpenFault(p)
    \/ RequestSucceed(p) \/ RequestFault(p) \/ TxnComplete(p) \/ TxnAbort(p)

\* C10: a getAll that resolves on a store cleared by a resolved clear with
\* no write since resolves with the empty sequence; directly after the clear
\* it is rejected only by an engine fault; and the steps of a clear change no
\* other store.
C10_ClearState ==
    \A p \in Procs :
        LET o == op[p] IN
        o.kind = "getAll" =>
            /\ (o.future = "resolved" /\ o.expect = 1) => o.value = AllVal(<<>>)
            /\ (o.after.kind = "clear" /\ o.after.ok /\ o.after.store = o.store) =>
                  /\ o.future = "resolved" => o.value = AllVal(<<>>)
                  /\ o.future = "rejected" => o.value = ErrVal("UnknownError")

C10_ClearStep ==
    \A p \in Procs :
        (op[p].kind = "clear" /\ StepOf(p)) =>
            \A t \in StoreNames \ {op[p].store} :
                /\ data'[t] = data[t]
                /\ (t \in stores') = (t \in stores)

\* C10: clear is total and touches its own store only
C10_ClearTotal == [](C10_ClearState) /\ [][C10_ClearStep]_vars

C10_Witness ==
    \E p \in Procs :
        /\ op[p].kind = "getAll" /\ op[p].future = "resolved" /\ op[p].expect = 1
        /\ op[p].after = [kind |-> "clear", store |-> "s1", key |-> 1, item |-> 1,
                          ok |-> TRUE]
        /\ op[p].store = "s1" /\ data["s1"] = EmptyStore /\ version = 1

\* C11: the step in which the request of a remove succeeds resolves the
\* future; when the key is absent it leaves the contents as they are, and
\* when the key is present it deletes that record and no other.
C11_RemoveStep ==
    \A p \in Procs :
        (op[p].kind = "remove" /\ RequestSucceed(p)) =>
            LET s == op[p].store
                k == op[p].key
            IN /\ op'[p].future = "resolved" /\ op'[p].value = Undefined
               /\ data[s][k] = NoItem => data' = data
               /\ data'[s][k] = NoItem
               /\ \A t \in StoreNames, j \in Keys :
                     (t # s \/ j # k) => data'[t][j] = data[t][j]

C11_RemoveIdempotent == [][C11_RemoveStep]_vars

\* the first call of a run, remove("s1", 2) on the database holding only
\* key 1, has resolved and key 1 is still there
C11_Witness ==
    \E p \in Procs :
        /\ op[p].kind = "remove" /\ op[p].future = "resolved"
        /\ op[p].store = "s1" /\ op[p].key = 2
        /\ calls = 1 /\ version = 1 /\ data["s1"][1] = 1

\* C12: without the capability, openDB and the six CRUD operations are
\* rejected in the step of the call with the error of openDB's test, hold
\* no connection and have no open request in the engine's queue; and no
\* step creates or changes the database.
C12_State ==
    ~supported =>
        \A p \in Procs :
            op[p].kind \in CrudKinds \cup {"openDB"} =>
                /\ op[p].future = "rejected" /\ op[p].value = ErrVal("Error")
                /\ op[p].conn = "none" /\ op[p].closes = 0
                /\ \A i \in 1..Len(openQueue) : openQueue[i] # p

C12_Step ==
    ~supported => UNCHANGED <<version, stores, data, openQueue, txnQueue>>

C12_CapabilityUnavailable == [](C12_State) /\ [][C12_Step]_vars

\* the second call of a run without the capability, an openDB asking for
\* version 2 of the database stored at version 1, is rejected
C12_Witness ==
    /\ ~supported /\ calls = 2 /\ version = 1 /\ stores = {"s1"}
    /\ \E p \in Procs :
          /\ op[p].kind = "openDB" /\ op[p].reqVersion = 2
          /\ op[p].future = "rejected" /\ op[p].value = ErrVal("Error")

\* the operations that hand their request to transactionPromise
BridgeKinds == (CrudKinds \ {"update"}) \cup {"addObjectStore"}

\* C13: in transactionPromise the step in which the request succeeds
\* resolves the pending future with the request's result, the step in which
\* it fails rejects the pending future with the request's error, the steps of
\* completion and abort find the future settled and leave it as it is, and
\* a settled future never changes.
C13_BridgeStep ==
    \A p \in Procs :
        LET o == op[p] IN
        o.kind \in BridgeKinds =>
            /\ RequestSucceed(p) =>
                  /\ o.future = "pending" /\ op'[p].future = "resolved"
                  /\ op'[p].value = Execute(o, data[o.store]).result
            /\ RequestFault(p) =>
                  /\ o.future = "pending" /\ op'[p].future = "rejected"
                  /\ op'[p].value = op'[p].engineErr
                  /\ op'[p].value = ErrVal("UnknownError")
            /\ (TxnComplete(p) \/ TxnAbort(p)) =>
                  /\ Settled(o)
                  /\ op'[p].future = o.future /\ op'[p].value = o.value
                  /\ UNCHANGED <<version, stores, data>>
            /\ (Settled(o) /\ calls' = calls) =>
                  op'[p].future = o.future /\ op'[p].value = o.value

C13_SettledByRequest == [][C13_BridgeStep]_vars

\* a set whose put failed and whose transaction then aborted is still
\* rejected with the error of the request
C13_Witness ==
    \E p \in Procs :
        /\ op[p].kind = "set" /\ Over(op[p]) /\ op[p].aborting
        /\ op[p].future = "rejected" /\ op[p].value = ErrVal("UnknownError")

\* C14: getCurrentDBVersion asks for no version; the step that serves its
\* open request opens one connection, closes it and hands the stored
\* version to addObjectStore, changing nothing of a database that exists and
\* creating one that does not at version 1 with no store; the step that
\* fails its open request rejects and leaves no connection; its connection
\* is open in no state.
C14_InspectorState ==
    \A p \in Procs :
        LET o == op[p] IN
        o.kind = "addObjectStore" =>
            /\ o.probe \in {NoProbe, [opens |-> 1, closes |-> 1]}
            /\ o.pc = "inspect" => o.reqVersion = 0 /\ o.probe = NoProbe
            /\ (o.conn # "none" \/ o.future = "resolved") => o.probe.closes = 1
            /\ o.currentVersion # 0 =>
                  /\ o.probe.closes = 1
                  /\ o.pc = "opening" => o.reqVersion = o.currentVersion + 1

C14_InspectorStep ==
    \A p \in Procs :
        op[p].pc = "inspect" =>
            /\ OpenSucceed(p) =>
                  /\ op'[p].probe = [opens |-> 1, closes |-> 1]
                  /\ op'[p].currentVersion = version'
                  /\ op'[p].conn = "none"
                  /\ data' = data
                  /\ IF version = 0 THEN version' = 1 /\ stores' = {}
                     ELSE version' = version /\ stores' = stores
            /\ (OpenFault(p) \/ OpenVersionError(p)) =>
                  /\ op'[p].future = "rejected" /\ op'[p].value = op'[p].engineErr
                  /\ ~HoldsOpen(op'[p])
                  /\ UNCHANGED <<version, stores, data>>

C14_VersionInspector == [](C14_InspectorState) /\ [][C14_InspectorStep]_vars

\* the inspection of a database that did not exist has created it at
\* version 1 with no store and reported 1
C14_Witness ==
    \E p \in Procs :
        /\ op[p].kind = "addObjectStore" /\ op[p].pc = "opening"
        /\ op[p].currentVersion = 1 /\ op[p].probe.closes = 1
        /\ calls = 1 /\ version = 1 /\ stores = {}

\* C15: a deleteDB never has a connection, opened or closed; the step in
\* which its delete request succeeds resolves it, the step in which the
\* request fails rejects it with the error of the request, and once the
\* request has settled the future has.
C15_DeleteState ==
    \A p \in Procs :
        LET o == op[p] IN
        o.kind = "deleteDB" =>
            /\ o.conn = "none" /\ o.closes = 0 /\ o.probe = NoProbe
            /\ Over(o) => Settled(o)
            /\ (o.future = "rejected" /\ supported) => o.value = o.engineErr
            /\ o.future = "resolved" => o.engineErr = NoValue

C15_DeleteStep ==
    \A p \in Procs :
        /\ DeleteSucceed(p) =>
              op[p].future = "pending" /\ op'[p].future = "resolved"
        /\ DeleteFault(p) =>
              /\ op[p].future = "pending" /\ op'[p].future = "rejected"
              /\ op'[p].value = ErrVal("UnknownError")

C15_DeleteDB == [](C15_DeleteState) /\ [][C15_DeleteStep]_vars

\* a deleteDB has resolved and the database is gone
C15_Witness ==
    \E p \in Procs :
        /\ op[p].kind = "deleteDB" /\ op[p].future = "resolved"
        /\ op[p].conn = "none" /\ version = 0 /\ stores = {}
        /\ data = EmptyData

\* the operations that run a transaction
TxnKinds == BridgeKinds \cup {"update"}

\* C16: the connection of an operation that runs a transaction is open as
\* long as the transaction is live, is closed only in the step that handles
\* the completion of the transaction, and that step closes it.
C16_CloseState ==
    \A p \in Procs :
        LET o == op[p] IN
        o.kind \in TxnKinds =>
            /\ o.pc \in {"request", "reading", "writing", "txn"} => o.conn = "open"
            /\ o.conn = "closed" => Over(o) /\ ~o.aborting /\ o.closes = 1
            /\ o.conn # "closed" => o.closes = 0

C16_CloseStep ==
    \A p \in Procs :
        op[p].kind \in TxnKinds =>
            /\ (op'[p].conn = "closed" /\ op[p].conn # "closed") => TxnComplete(p)
            /\ op'[p].closes # op[p].closes => TxnComplete(p) \/ calls' # calls
            /\ TxnComplete(p) =>
                  /\ op[p].conn = "open" /\ op'[p].conn = "closed"
                  /\ op'[p].closes = op[p].closes + 1

C16_ClosedAtCompletion == [](C16_CloseState) /\ [][C16_CloseStep]_vars

\* the transaction of a clear has completed and its connection is closed
C16_Witness ==
    \E p \in Procs :
        /\ op[p].kind = "clear" /\ Over(op[p]) /\ op[p].future = "resolved"
        /\ op[p].conn = "closed" /\ op[p].closes = 1 /\ txnQueue = <<>>

\* C17: update issues its write in the step in which its read succeeds and
\* in no other step, in the transaction and on the connection of the read;
\* the step in which the read fails issues none; the future is pending until
\* the write settles and is settled by the outcome of the write.
C17_WriteState ==
    \A p \in Procs :
        LET o == op[p] IN
        o.kind = "update" =>
            /\ o.pc \in {"reading", "writing"} => o.future = "pending"
            /\ o.pc = "writing" =>
                  o.existing # NoValue /\ o.engineErr = NoValue /\ ~o.aborting
            /\ o.pc = "reading" => o.existing = NoValue

C17_WriteStep ==
    \A p \in Procs :
        LET o == op[p] IN
        o.kind = "update" =>
            /\ (op'[p].pc = "writing" /\ o.pc # "writing") =>
                  o.pc = "reading" /\ RequestSucceed(p)
            /\ (o.pc = "reading" /\ RequestSucceed(p)) =>
                  /\ op'[p].pc = "writing"
                  /\ op'[p].existing = ItemVal(data[o.store][o.key])
                  /\ op'[p].conn = "open" /\ o.conn = "open"
                  /\ op'[p].connVersion = o.connVersion
                  /\ txnQueue' = txnQueue /\ data' = data
            /\ (o.pc = "reading" /\ RequestFault(p)) =>
                  op'[p].pc = "txn" /\ op'[p].aborting /\ data' = data
            /\ (o.pc = "writing" /\ RequestSucceed(p)) =>
                  /\ op'[p].future = "resolved"
                  /\ op'[p].value = UpdateWrite(data[o.store], o.item, o.key).result
            /\ (o.pc = "writing" /\ RequestFault(p)) =>
                  op'[p].future = "rejected" /\ op'[p].value = op'[p].engineErr

C17_WriteAfterRead == [](C17_WriteState) /\ [][C17_WriteStep]_vars

\* the read of an update found item 1 and the write is pending
C17_Witness ==
    \E p \in Procs :
        /\ op[p].kind = "update" /\ op[p].pc = "writing"
        /\ op[p].existing = ItemVal(1) /\ op[p].item = 2
        /\ op[p].conn = "open" /\ op[p].future = "pending"

\* An addObjectStore is stale when the stored version has reached the
\* version it is about to open at: another call bumped the version after
\* this one read it.
Stale(p) ==
    /\ op[p].kind = "addObjectStore" /\ op[p].pc = "opening"
    /\ version >= op[p].reqVersion

\* C18: no step of a stale addObjectStore changes version, stores or data;
\* its open succeeds with no upgrade at the version it asked for, and is
\* then rejected for its missing store, or fails with VersionError; an
\* addObjectStore rejected for its missing store has opened at the version
\* it read plus one, and its store is not there.
C18_StaleState ==
    \A p \in Procs :
        LET o == op[p] IN
        (o.kind = "addObjectStore" /\ o.value = ErrVal("NotFoundError")) =>
            /\ o.future = "rejected" /\ o.conn = "open"
            /\ o.connVersion = o.currentVersion + 1 /\ version = o.connVersion
            /\ o.store \notin stores

C18_StaleStep ==
    \A p \in Procs :
        (Stale(p) /\ StepOf(p)) =>
            /\ UNCHANGED <<version, stores, data>>
            /\ OpenSucceed(p) =>
                  /\ version = op[p].reqVersion /\ op'[p].conn = "open"
                  /\ op[p].store \notin stores =>
                        /\ op'[p].future = "rejected"
                        /\ op'[p].value = ErrVal("NotFoundError")
            /\ OpenVersionError(p) =>
                  /\ version > op[p].reqVersion
                  /\ op'[p].future = "rejected"
                  /\ op'[p].value = ErrVal("VersionError")

C18_VersionBumpRace == [](C18_StaleState) /\ [][C18_StaleStep]_vars

\* two addObjectStore calls with different store names read the same
\* version; the first upgraded and created its store, the second opened with
\* no upgrade and is rejected, its store missing
C18_Witness ==
    \E p, q \in Procs :
        /\ op[p].kind = "addObjectStore" /\ op[q].kind = "addObjectStore"
        /\ op[p].store # op[q].store
        /\ op[p].currentVersion = op[q].currentVersion
        /\ op[p].currentVersion # 0
        /\ op[p].reqVersion = op[q].reqVersion
        /\ op[p].conn # "none" /\ op[p].store \in stores
        /\ op[q].future = "rejected" /\ op[q].value = ErrVal("NotFoundError")
        /\ op[q].store \notin stores /\ version = op[q].reqVersion

\* C19: under a fair engine the future of every call is eventually settled.
C19_EventuallySettles ==
    \A p \in Procs : (op[p].future = "pending") ~> (op[p].future # "pending")

\* C20: a step that adds a store is a step that raises the version; an open
\* by openDB served at its requested version changes neither version nor
\* stores nor data, whether the named store exists or not; a CRUD operation
\* whose store is missing then is rejected, starts no transaction, and its
\* store stays missing.
C20_MigrationState ==
    \A p \in Procs :
        LET o == op[p] IN
        (o.kind \in CrudKinds /\ o.value = ErrVal("NotFoundError")) =>
            /\ o.future = "rejected" /\ Over(o)
            /\ o.store \notin stores /\ version = o.connVersion
            /\ \A i \in 1..Len(txnQueue) : txnQueue[i] # p

C20_MigrationStep ==
    /\ ~(stores' \subseteq stores) => version' > version
    /\ \A p \in Procs :
          (op[p].pc = "opening" /\ OpenSucceed(p) /\ version = op[p].reqVersion) =>
              /\ UNCHANGED <<version, stores, data>>
              /\ op'[p].conn = "open"
              /\ (op[p].kind \in CrudKinds /\ op[p].store \notin stores) =>
                    /\ op'[p].future = "rejected"
                    /\ op'[p].value = ErrVal("NotFoundError")
                    /\ Over(op'[p]) /\ txnQueue' = txnQueue

C20_MigrationOnlyOnUpgrade == [](C20_MigrationState) /\ [][C20_MigrationStep]_vars

\* the first call of a run, a set naming the store "s2" the database at
\* version 1 does not have, is rejected; version, stores and data are as
\* they were
C20_Witness ==
    \E p \in Procs :
        /\ op[p].kind = "set" /\ op[p].store = "s2"
        /\ op[p].future = "rejected" /\ op[p].value = ErrVal("NotFoundError")
        /\ calls = 1 /\ version = 1 /\ stores = {"s1"}
        /\ data = [EmptyData EXCEPT !["s1"][1] = 1]

====
